---- MODULE Spec2Model ----
(***************************************************************************)
(* Model of generator/sanitizer.py (run_sanitizer and its normalisation    *)
(* helpers) and of generator/bulk_generate.py (main, get_sentence_counts,  *)
(* append_to_output).  A string is a sequence of characters; a character   *)
(* is named by a TLA+ string ("a", "aacute", "ni", ...).  A YAML value is  *)
(* a record tagged with its type; a mapping carries its fields in "val", a *)
(* sequence its elements in "items".  Record indices are 0-based as in the *)
(* code.  Spec runs the sanitizer, SpecNorm the two pinyin keys on a pair  *)
(* of strings, SpecBulk a bulk generation run.                             *)
(***************************************************************************)
EXTENDS Integers, Sequences, FiniteSets, TLC

\* run_sanitizer
VARIABLES input, pc, data, i, chinese_groups, word_map, g,
          duplicates_found, w, inconsistent_count, out

\* the normalisation helpers applied to a pair of pinyin strings
VARIABLES raw_pair, full_keys, stripped_keys

sanvars == <<input, pc, data, i, chinese_groups, word_map, g,
             duplicates_found, w, inconsistent_count, out>>

normvars == <<raw_pair, full_keys, stripped_keys>>

\* bulk_generate.main: its arguments, the output file, its locals, and the
\* record of what the run has done (the initial file, the generate_for_word
\* calls and the appends per word-list entry, the appended sentences)
VARIABLES word_list, limit, retries, output_file, counts, consecutive_failures,
          total_new_count, word_i, attempt, success, bpc,
          exc, file0, calls, appends, generated

bulkvars == <<word_list, limit, retries, output_file, counts,
              consecutive_failures, total_new_count, word_i, attempt,
              success, bpc, exc, file0, calls, appends, generated>>

others == <<normvars, bulkvars>>

vars == <<sanvars, normvars, bulkvars>>

----------------------------------------------------------------------------
(* Bounds *)

MaxRecords == 3

MaxCapGroups == 12

MaxLen == 2

MaxWords == 2

MaxLimit == 2

MaxRetries == 2

MaxFile == 1

----------------------------------------------------------------------------
(* Characters: the part of Unicode the corpora below are written in *)

Chars ==
  {"a", "A", "m", "aacute", "agrave", "cacute", "cgrave", "sp", "d5",
   "ni", "hao", "period"}

\* unicodedata.category(c)
category(c) ==
  CASE c \in {"a", "m", "aacute", "agrave"} -> "Ll"
    [] c = "A" -> "Lu"
    [] c \in {"ni", "hao"} -> "Lo"
    [] c \in {"cacute", "cgrave"} -> "Mn"
    [] c = "sp" -> "Zs"
    [] c = "d5" -> "Nd"
    [] c = "period" -> "Po"

\* unicodedata.category(c).startswith('L')
IsLetter(c) == category(c) \in {"Ll", "Lu", "Lo"}

\* str.lower(), one character at a time
LowerChar(c) == IF c = "A" THEN "a" ELSE c

lower(s) == [k \in 1..Len(s) |-> LowerChar(s[k])]

\* canonical decomposition of one character
DecomposeChar(c) ==
  CASE c = "aacute" -> <<"a", "cacute">>
    [] c = "agrave" -> <<"a", "cgrave">>
    [] OTHER -> <<c>>

RECURSIVE NFD(_)
\* unicodedata.normalize('NFD', s)
NFD(s) == IF s = <<>> THEN <<>> ELSE DecomposeChar(Head(s)) \o NFD(Tail(s))

\* ord(c), the order sorted() compares strings by
ord(c) ==
  CASE c = "sp" -> 32
    [] c = "d5" -> 53
    [] c = "A" -> 65
    [] c = "a" -> 97
    [] c = "m" -> 109
    [] c = "agrave" -> 224
    [] c = "aacute" -> 225
    [] c = "cgrave" -> 768
    [] c = "cacute" -> 769
    [] c = "period" -> 12290
    [] c = "ni" -> 20320
    [] c = "hao" -> 22909

RECURSIVE StrLess(_, _)
\* s < t for Python strings
StrLess(s, t) ==
  IF t = <<>> THEN FALSE
  ELSE IF s = <<>> THEN TRUE
  ELSE IF Head(s) # Head(t) THEN ord(Head(s)) < ord(Head(t))
  ELSE StrLess(Tail(s), Tail(t))

----------------------------------------------------------------------------
(* Normalisation *)

IsNotMark(c) == category(c) # "Mn"

\* "".join(c for c in s if unicodedata.category(c).startswith('L'))
LettersOnly(s) == SelectSeq(s, IsLetter)

strip_tones(s) == lower(SelectSeq(NFD(s), IsNotMark))

normalize_pinyin_full(pinyin) == lower(LettersOnly(pinyin))

normalize_pinyin_stripped(pinyin) == lower(LettersOnly(strip_tones(pinyin)))

----------------------------------------------------------------------------
(* Insertion-ordered dictionaries: a sequence of [k, v] in insertion order *)

DictKeys(d) == [n \in 1..Len(d) |-> d[n].k]

DictHas(d, key) == \E n \in 1..Len(d) : d[n].k = key

DictGet(d, key) == d[CHOOSE n \in 1..Len(d) : d[n].k = key].v

\* d[key] = val
DictSet(d, key, val) ==
  IF DictHas(d, key)
  THEN [n \in 1..Len(d) |-> IF d[n].k = key THEN [k |-> key, v |-> val] ELSE d[n]]
  ELSE Append(d, [k |-> key, v |-> val])

\* defaultdict(list): d[key].append(x)
DictAppend(d, key, x) ==
  DictSet(d, key, IF DictHas(d, key) THEN Append(DictGet(d, key), x) ELSE <<x>>)

----------------------------------------------------------------------------
(* Loaded YAML values *)

\* mapping.get(key, default)
Get(m, key, default) == IF key \in DOMAIN m.val THEN m.val[key] ELSE default

\* the test "data is not None" in place of the truth value
TruthyNotNone(doc) == doc.type # "null"

\* the truth value of the loaded document ("if not data")
Truthy(doc) ==
  CASE doc.type = "null" -> FALSE
    [] doc.type = "int" -> doc.val["n"] # 0
    [] doc.type = "seq" -> doc.items # <<>>

\* 'chunks' not in entry
LacksChunks(entry) == "chunks" \notin DOMAIN entry.val

\* the chunk list of a record that has one
Chunks(entry) == entry.val["chunks"].items

\* the lookup with a placeholder in place of the empty default
ChunkChineseMarked(chunk) == Get(chunk, "chinese", <<"m">>)

\* chunk.get('chinese', '')
ChunkChinese(chunk) == Get(chunk, "chinese", <<>>)

\* chunk.get('pinyin', '')
ChunkPinyin(chunk) == Get(chunk, "pinyin", <<>>)

\* any(unicodedata.category(c).startswith('L') for c in ch)
HasLetter(ch) == \E k \in 1..Len(ch) : IsLetter(ch[k])

RECURSIVE JoinChinese(_)
\* "".join(chunk.get('chinese', '') for chunk in chunks)
JoinChinese(chunks) ==
  IF chunks = <<>> THEN <<>>
  ELSE ChunkChinese(Head(chunks)) \o JoinChinese(Tail(chunks))

RECURSIVE JoinPinyin(_)
\* " ".join(c.get('pinyin', '') for c in chunks)
JoinPinyin(chunks) ==
  IF chunks = <<>> THEN <<>>
  ELSE IF Len(chunks) = 1 THEN ChunkPinyin(Head(chunks))
  ELSE ChunkPinyin(Head(chunks)) \o <<"sp">> \o JoinPinyin(Tail(chunks))

\* the statements of the scan loop body that raise: the membership test on a
\* record that is no container, the iteration over a chunks value that is
\* no sequence, and .get on a chunk that is no mapping
EntryRaises(entry) ==
  IF entry.type # "map" THEN TRUE
  ELSE IF LacksChunks(entry) THEN FALSE
  ELSE IF entry.val["chunks"].type # "seq" THEN TRUE
  ELSE \E k \in 1..Len(Chunks(entry)) : Chunks(entry)[k].type # "map"

----------------------------------------------------------------------------
(* The scan loop body *)

\* word_map[ch][py_full].append(idx)
WordMapAdd(wm, ch, py_full, idx) ==
  DictSet(wm, ch, DictAppend(IF DictHas(wm, ch) THEN DictGet(wm, ch) ELSE <<>>,
                             py_full, idx))

\* the chunk loop body without the punctuation skip
ScanChunkNoSkip(wm, chunk, idx) ==
  LET py_full == normalize_pinyin_full(ChunkPinyin(chunk))
  IN IF py_full = <<>> THEN wm
     ELSE WordMapAdd(wm, ChunkChinese(chunk), py_full, idx)

\* the body of "for chunk in entry['chunks']"
ScanChunk(wm, chunk, idx) ==
  LET ch == ChunkChinese(chunk)
      py == ChunkPinyin(chunk)
      py_full == normalize_pinyin_full(py)
  IN IF ~HasLetter(ch) THEN wm
     ELSE IF py_full = <<>> THEN wm
     ELSE WordMapAdd(wm, ch, py_full, idx)

RECURSIVE ScanChunks(_, _, _)
ScanChunks(wm, chunks, idx) ==
  IF chunks = <<>> THEN wm
  ELSE ScanChunks(ScanChunk(wm, Head(chunks), idx), Tail(chunks), idx)

\* the grouping step with a record without chunks read as an empty sentence
ScanEntryGroupsDefaultEmpty(cg, entry, idx) ==
  DictAppend(cg, IF LacksChunks(entry) THEN <<>> ELSE JoinChinese(Chunks(entry)), idx)

\* the body of "for i, entry in enumerate(data)" for a record that does not
\* raise: the new chinese_groups and word_map
ScanEntryGroups(cg, entry, idx) ==
  IF LacksChunks(entry) THEN cg
  ELSE DictAppend(cg, JoinChinese(Chunks(entry)), idx)

ScanEntryWords(wm, entry, idx) ==
  IF LacksChunks(entry) THEN wm
  ELSE ScanChunks(wm, Chunks(entry), idx)

----------------------------------------------------------------------------
(* The duplicate-sentence report *)

\* the number of duplicate groups printed in full
PrintCap == 10

\* data[idx]
Item(items, idx) == items[idx + 1]

RECURSIVE BuildPinyinMap(_, _, _)
\* pinyin_map after "for idx in indices", started from pm
BuildPinyinMap(pm, items, indices) ==
  IF indices = <<>> THEN pm
  ELSE LET full_py == JoinPinyin(Chunks(Item(items, Head(indices))))
       IN BuildPinyinMap(DictAppend(pm, normalize_pinyin_full(full_py), Head(indices)),
                         items, Tail(indices))

\* the group test without the comparison of readings
IsDuplicateGroupAnyReading(items, indices) == Len(indices) > 1

\* len(indices) > 1 and len(pinyin_map) == 1
IsDuplicateGroup(items, indices) ==
  /\ Len(indices) > 1
  /\ Len(BuildPinyinMap(<<>>, items, indices)) = 1

\* the three lines printed for a duplicate group, as one report entry
DupLine(items, chinese, indices) ==
  [kind |-> "dup",
   chinese |-> chinese,
   pinyin |-> JoinPinyin(Chunks(Item(items, indices[1]))),
   english |-> [n \in 1..Len(indices) |-> Get(Item(items, indices[n]), "english", "???")],
   indices |-> indices]

\* the iteration with the cap test off by one
DupGroupLinesCapInclusive(items, group, found) ==
  IF IsDuplicateGroup(items, group.v) /\ found <= PrintCap
  THEN <<DupLine(items, group.k, group.v)>>
  ELSE <<>>

\* what one iteration of "for chinese, indices in chinese_groups.items()" prints
DupGroupLines(items, group, found) ==
  IF IsDuplicateGroup(items, group.v) /\ found < PrintCap
  THEN <<DupLine(items, group.k, group.v)>>
  ELSE <<>>

\* duplicates_found after that iteration
DupGroupCount(items, group, found) ==
  IF IsDuplicateGroup(items, group.v) THEN found + 1 ELSE found

\* the summary printed after the loop
DupSummaryLines(found) ==
  IF found > PrintCap THEN <<[kind |-> "more", n |-> found - PrintCap]>>
  ELSE IF found = 0 THEN <<[kind |-> "nodups"]>>
  ELSE <<[kind |-> "found", n |-> found]>>

----------------------------------------------------------------------------
(* The inconsistent-tones report *)

RECURSIVE BuildStrippedMap(_, _)
\* stripped_map after "for py_full in py_full_map.keys()", started from sm
BuildStrippedMap(sm, py_fulls) ==
  IF py_fulls = <<>> THEN sm
  ELSE BuildStrippedMap(DictAppend(sm, normalize_pinyin_stripped(Head(py_fulls)),
                                   Head(py_fulls)),
                        Tail(py_fulls))

\* chunk.get('chinese') == ch and normalize_pinyin_full(chunk.get('pinyin', '')) == fp
ChunkMatches(chunk, ch, fp) ==
  /\ "chinese" \in DOMAIN chunk.val
  /\ chunk.val["chinese"] = ch
  /\ normalize_pinyin_full(ChunkPinyin(chunk)) = fp

RECURSIVE SampleInChunks(_, _, _)
\* the inner loop of the sample search: the pinyin of the first matching chunk
SampleInChunks(chunks, ch, fp) ==
  IF chunks = <<>> THEN <<>>
  ELSE IF ChunkMatches(Head(chunks), ch, fp) THEN ChunkPinyin(Head(chunks))
  ELSE SampleInChunks(Tail(chunks), ch, fp)

RECURSIVE SampleRaw(_, _, _, _)
\* sample_raw: the search stops at the first record that gives a non-empty sample
SampleRaw(items, indices, ch, fp) ==
  IF indices = <<>> THEN <<>>
  ELSE LET found == SampleInChunks(Chunks(Item(items, Head(indices))), ch, fp)
       IN IF found # <<>> THEN found ELSE SampleRaw(items, Tail(indices), ch, fp)

\* the line with the example taken from the last record of the reading
VariantLineLastExample(items, ch, py_full_map, fp) ==
  LET indices == DictGet(py_full_map, fp)
  IN [kind |-> "variant",
      raw |-> SampleRaw(items, indices, ch, fp),
      count |-> Len(indices),
      english |-> Get(Item(items, indices[Len(indices)]), "english", "None")]

\* the line printed for one full-letters reading
VariantLine(items, ch, py_full_map, fp) ==
  LET indices == DictGet(py_full_map, fp)
  IN [kind |-> "variant",
      raw |-> SampleRaw(items, indices, ch, fp),
      count |-> Len(indices),
      english |-> Get(Item(items, indices[1]), "english", "None")]

\* the lines printed for one stripped group of two or more readings
StrippedGroupLines(items, ch, py_full_map, full_pinyins) ==
  LET sorted == SortSeq(full_pinyins, StrLess)
  IN <<[kind |-> "chinese", ch |-> ch]>>
     \o [n \in 1..Len(sorted) |-> VariantLine(items, ch, py_full_map, sorted[n])]

RECURSIVE StrippedMapLines(_, _, _, _)
\* what "for stripped, full_pinyins in stripped_map.items()" prints
StrippedMapLines(items, ch, py_full_map, sm) ==
  IF sm = <<>> THEN <<>>
  ELSE (IF Len(Head(sm).v) > 1
        THEN StrippedGroupLines(items, ch, py_full_map, Head(sm).v)
        ELSE <<>>)
       \o StrippedMapLines(items, ch, py_full_map, Tail(sm))

\* the number of stripped groups of two or more readings
StrippedMapCount(sm) == Cardinality({n \in 1..Len(sm) : Len(sm[n].v) > 1})

\* the iteration without the grouping by stripped key
ToneGroupLinesAnyReading(items, ch, py_full_map) ==
  IF Len(py_full_map) > 1
  THEN StrippedGroupLines(items, ch, py_full_map, DictKeys(py_full_map))
  ELSE <<>>

\* what one iteration of "for ch, py_full_map in sorted(word_map.items())" prints
ToneGroupLines(items, ch, py_full_map) ==
  IF Len(py_full_map) > 1
  THEN StrippedMapLines(items, ch, py_full_map,
                        BuildStrippedMap(<<>>, DictKeys(py_full_map)))
  ELSE <<>>

\* what that iteration adds to inconsistent_count
ToneGroupCount(py_full_map) ==
  IF Len(py_full_map) > 1
  THEN StrippedMapCount(BuildStrippedMap(<<>>, DictKeys(py_full_map)))
  ELSE 0

\* the keys of word_map in insertion order
SortedWordsUnsorted(wm) == DictKeys(wm)

\* the keys of word_map in the order sorted(word_map.items()) visits them
SortedWords(wm) == SortSeq(DictKeys(wm), StrLess)

\* the closing line of the section
ToneSummaryLines(count) == IF count = 0 THEN <<[kind |-> "nonefound"]>> ELSE <<>>

----------------------------------------------------------------------------
(* The analysis as a function of the loaded list *)

RECURSIVE RunScan(_, _)
\* the scan loop over the first n records
RunScan(items, n) ==
  IF n = 0 THEN [raised |-> FALSE, chinese_groups |-> <<>>, word_map |-> <<>>]
  ELSE LET prev == RunScan(items, n - 1)
       IN IF prev.raised THEN prev
          ELSE IF EntryRaises(items[n]) THEN [prev EXCEPT !.raised = TRUE]
          ELSE [raised |-> FALSE,
                chinese_groups |-> ScanEntryGroups(prev.chinese_groups, items[n], n - 1),
                word_map |-> ScanEntryWords(prev.word_map, items[n], n - 1)]

RECURSIVE RunDups(_, _, _)
\* the duplicate loop over the first n groups
RunDups(items, groups, n) ==
  IF n = 0 THEN [found |-> 0, lines |-> <<>>]
  ELSE LET prev == RunDups(items, groups, n - 1)
       IN [found |-> DupGroupCount(items, groups[n], prev.found),
           lines |-> prev.lines \o DupGroupLines(items, groups[n], prev.found)]

RECURSIVE RunTones(_, _, _, _)
\* the tone loop over the first n words
RunTones(items, wm, words, n) ==
  IF n = 0 THEN [count |-> 0, lines |-> <<>>]
  ELSE LET prev == RunTones(items, wm, words, n - 1)
       IN [count |-> prev.count + ToneGroupCount(DictGet(wm, words[n])),
           lines |-> prev.lines \o ToneGroupLines(items, words[n], DictGet(wm, words[n]))]

\* everything run_sanitizer does with a loaded list: whether it raises, the
\* two grouping structures and the lines printed after "Analyzing"
Analyze(items) ==
  LET scan == RunScan(items, Len(items))
      dups == RunDups(items, scan.chinese_groups, Len(scan.chinese_groups))
      tones == RunTones(items, scan.word_map, SortedWords(scan.word_map),
                        Len(scan.word_map))
  IN IF scan.raised
     THEN [raised |-> TRUE, chinese_groups |-> scan.chinese_groups,
           word_map |-> scan.word_map, lines |-> <<>>]
     ELSE [raised |-> FALSE, chinese_groups |-> scan.chinese_groups,
           word_map |-> scan.word_map,
           lines |-> dups.lines \o DupSummaryLines(dups.found)
                     \o <<[kind |-> "toneheader"]>>
                     \o tones.lines \o ToneSummaryLines(tones.count)]

----------------------------------------------------------------------------
(* Input files *)

MkChunk(ch, py) == [type |-> "map", val |-> [chinese |-> ch, pinyin |-> py]]

MkEntry(en, chunks) ==
  [type |-> "map",
   val |-> [english |-> en, chunks |-> [type |-> "seq", items |-> chunks]]]

NI == <<"ni">>

HAO == <<"hao">>

PERIOD == <<"period">>

MA == <<"m", "a">>

\* the records the small corpora are made of
SampleEntries ==
  { MkEntry("e1", <<MkChunk(NI, MA)>>),
    MkEntry("e2", <<MkChunk(NI, <<"m", "sp", "A">>)>>),
    MkEntry("e3", <<MkChunk(NI, <<"m", "aacute">>)>>),
    MkEntry("e4", <<MkChunk(NI, MA), MkChunk(PERIOD, MA)>>),
    MkEntry("e5", <<MkChunk(NI, MA), MkChunk(PERIOD, <<"m", "aacute">>)>>),
    MkEntry("e6", <<[type |-> "map", val |-> [pinyin |-> <<"d5">>]], MkChunk(NI, MA)>>),
    MkEntry("e7", <<MkChunk(NI, <<"m", "a", "sp", "m", "a">>), [type |-> "map", val |-> [chinese |-> PERIOD]]>>),
    [type |-> "map", val |-> [english |-> "e8"]],
    [type |-> "map", val |-> [english |-> "e9", chunks |-> [type |-> "null"]]],
    MkEntry("e10", <<[type |-> "str"]>>),
    [type |-> "int", val |-> [n |-> 5]],
    [type |-> "map",
     val |-> [chunks |-> [type |-> "seq",
                          items |-> <<MkChunk(HAO, MA),
                                      MkChunk(HAO, <<"m", "agrave">>)>>]]] }

RECURSIVE SeqsUpTo(_, _)
\* the sequences over S of length at most n
SeqsUpTo(S, n) ==
  IF n = 0 THEN {<<>>}
  ELSE LET shorter == SeqsUpTo(S, n - 1)
       IN shorter \cup {Append(q, x) : q \in shorter, x \in S}

SmallDocs ==
  {[type |-> "seq", items |-> q] : q \in SeqsUpTo(SampleEntries, MaxRecords)}
  \cup {[type |-> "null"], [type |-> "int", val |-> [n |-> 0]], [type |-> "int", val |-> [n |-> 5]]}

\* the Chinese text of the t-th sentence of a large corpus
CapText(t) == [k \in 1..t |-> "ni"]

\* n sentences followed by a second copy of each; the copy of sentence h (if
\* any) is read with another tone
CapDoc(n, h) ==
  [type |-> "seq",
   items |-> [k \in 1..(2 * n) |->
               IF k <= n THEN MkEntry("first", <<MkChunk(CapText(k), MA)>>)
               ELSE MkEntry("second",
                            <<MkChunk(CapText(k - n),
                                      IF k - n = h THEN <<"m", "aacute">> ELSE MA)>>)]]

CapDocs == {CapDoc(n, h) : n \in 1..MaxCapGroups, h \in 0..1}

\* two sentences that each read one word with two tones
OrderEntries ==
  { MkEntry("o1", <<MkChunk(HAO, MA), MkChunk(HAO, <<"m", "agrave">>)>>),
    MkEntry("o2", <<MkChunk(NI, MA), MkChunk(NI, <<"m", "aacute">>)>>) }

\* corpora long enough to repeat both sentences in any order
OrderDocs ==
  {[type |-> "seq", items |-> q] : q \in SeqsUpTo(OrderEntries, MaxRecords + 1)}

Inputs ==
  {[kind |-> "missing"], [kind |-> "badyaml"]}
  \cup {[kind |-> "doc", doc |-> d] : d \in SmallDocs \cup CapDocs \cup OrderDocs}

----------------------------------------------------------------------------
(* run_sanitizer *)

\* the words of the word lists
BulkWords == {NI, HAO, NI \o HAO}

\* bulk_generate.main is not running
BulkIdle ==
  /\ word_list = <<>>
  /\ limit = 0
  /\ retries = 0
  /\ output_file = [kind |-> "absent", items |-> <<>>]
  /\ counts = [x \in BulkWords |-> 0]
  /\ consecutive_failures = 0
  /\ total_new_count = 0
  /\ word_i = 0
  /\ attempt = 0
  /\ success = FALSE
  /\ bpc = "idle"
  /\ exc = "none"
  /\ file0 = [kind |-> "absent", items |-> <<>>]
  /\ calls = <<>>
  /\ appends = <<>>
  /\ generated = <<>>

\* no pinyin pair is being normalised
NormIdle ==
  /\ raw_pair = <<<<>>, <<>>>>
  /\ full_keys = <<>>
  /\ stripped_keys = <<>>

Init ==
  /\ NormIdle
  /\ BulkIdle
  /\ input \in Inputs
  /\ pc = "start"
  /\ data = [type |-> "null"]
  /\ i = 0
  /\ chinese_groups = <<>>
  /\ word_map = <<>>
  /\ g = 0
  /\ duplicates_found = 0
  /\ w = 0
  /\ inconsistent_count = 0
  /\ out = <<>>

FileNotFound ==
  /\ pc = "start"
  /\ input.kind = "missing"
  /\ out' = <<[kind |-> "notfound"]>>
  /\ pc' = "done"
  /\ UNCHANGED <<others, input, data, i, chinese_groups, word_map, g, duplicates_found,
                 w, inconsistent_count>>

ParseError ==
  /\ pc = "start"
  /\ input.kind = "badyaml"
  /\ out' = <<[kind |-> "analyzing"], [kind |-> "parseerror"]>>
  /\ pc' = "done"
  /\ UNCHANGED <<others, input, data, i, chinese_groups, word_map, g, duplicates_found,
                 w, inconsistent_count>>

EmptyFile ==
  /\ pc = "start"
  /\ input.kind = "doc"
  /\ ~Truthy(input.doc)
  /\ data' = input.doc
  /\ out' = <<[kind |-> "analyzing"], [kind |-> "empty"]>>
  /\ pc' = "done"
  /\ UNCHANGED <<others, input, i, chinese_groups, word_map, g, duplicates_found,
                 w, inconsistent_count>>

Load ==
  /\ pc = "start"
  /\ input.kind = "doc"
  /\ Truthy(input.doc)
  /\ data' = input.doc
  /\ out' = <<[kind |-> "analyzing"]>>
  /\ pc' = "scan"
  /\ UNCHANGED <<others, input, i, chinese_groups, word_map, g, duplicates_found,
                 w, inconsistent_count>>

\* enumerate(data) on a document that is not iterable
EnumerateRaises ==
  /\ pc = "scan"
  /\ data.type # "seq"
  /\ pc' = "raised"
  /\ UNCHANGED <<others, input, data, i, chinese_groups, word_map, g, duplicates_found,
                 w, inconsistent_count, out>>

\* a record whose chunks carry their full-letters key in place of the pinyin
KeyedEntry(entry) ==
  IF LacksChunks(entry) THEN entry
  ELSE [entry EXCEPT !.val["chunks"].items =
          [k \in 1..Len(Chunks(entry)) |->
             [Chunks(entry)[k] EXCEPT !.val =
                [f \in DOMAIN Chunks(entry)[k].val |->
                   IF f = "pinyin"
                   THEN normalize_pinyin_full(Chunks(entry)[k].val[f])
                   ELSE Chunks(entry)[k].val[f]]]]]

\* the scan step that stores the normalized pinyin back into the record
ScanEntryInPlace ==
  /\ pc = "scan"
  /\ data.type = "seq"
  /\ i < Len(data.items)
  /\ ~EntryRaises(Item(data.items, i))
  /\ chinese_groups' = ScanEntryGroups(chinese_groups, Item(data.items, i), i)
  /\ word_map' = ScanEntryWords(word_map, Item(data.items, i), i)
  /\ data' = [data EXCEPT !.items[i + 1] = KeyedEntry(Item(data.items, i))]
  /\ i' = i + 1
  /\ UNCHANGED <<others, input, pc, g, duplicates_found, w, inconsistent_count, out>>

ScanEntry ==
  /\ pc = "scan"
  /\ data.type = "seq"
  /\ i < Len(data.items)
  /\ ~EntryRaises(Item(data.items, i))
  /\ chinese_groups' = ScanEntryGroups(chinese_groups, Item(data.items, i), i)
  /\ word_map' = ScanEntryWords(word_map, Item(data.items, i), i)
  /\ i' = i + 1
  /\ UNCHANGED <<others, input, pc, data, g, duplicates_found, w, inconsistent_count, out>>

ScanRaises ==
  /\ pc = "scan"
  /\ data.type = "seq"
  /\ i < Len(data.items)
  /\ EntryRaises(Item(data.items, i))
  /\ pc' = "raised"
  /\ UNCHANGED <<others, input, data, i, chinese_groups, word_map, g, duplicates_found,
                 w, inconsistent_count, out>>

\* the scan loop is exhausted
ScanDone ==
  /\ pc = "scan"
  /\ data.type = "seq"
  /\ i = Len(data.items)
  /\ pc' = "dups"
  /\ UNCHANGED <<others, input, data, i, chinese_groups, word_map, g, duplicates_found,
                 w, inconsistent_count, out>>

DupGroup ==
  /\ pc = "dups"
  /\ g < Len(chinese_groups)
  /\ out' = out \o DupGroupLines(data.items, chinese_groups[g + 1], duplicates_found)
  /\ duplicates_found' = DupGroupCount(data.items, chinese_groups[g + 1], duplicates_found)
  /\ g' = g + 1
  /\ UNCHANGED <<others, input, pc, data, i, chinese_groups, word_map, w, inconsistent_count>>

DupSummary ==
  /\ pc = "dups"
  /\ g = Len(chinese_groups)
  /\ out' = out \o DupSummaryLines(duplicates_found) \o <<[kind |-> "toneheader"]>>
  /\ pc' = "tones"
  /\ UNCHANGED <<others, input, data, i, chinese_groups, word_map, g, duplicates_found,
                 w, inconsistent_count>>

ToneGroup ==
  /\ pc = "tones"
  /\ w < Len(word_map)
  /\ LET ch == SortedWords(word_map)[w + 1]
         py_full_map == DictGet(word_map, ch)
     IN /\ out' = out \o ToneGroupLines(data.items, ch, py_full_map)
        /\ inconsistent_count' = inconsistent_count + ToneGroupCount(py_full_map)
  /\ w' = w + 1
  /\ UNCHANGED <<others, input, pc, data, i, chinese_groups, word_map, g, duplicates_found>>

ToneSummary ==
  /\ pc = "tones"
  /\ w = Len(word_map)
  /\ out' = out \o ToneSummaryLines(inconsistent_count)
  /\ pc' = "done"
  /\ UNCHANGED <<others, input, data, i, chinese_groups, word_map, g, duplicates_found,
                 w, inconsistent_count>>

Next ==
  \/ FileNotFound
  \/ ParseError
  \/ EmptyFile
  \/ Load
  \/ EnumerateRaises
  \/ ScanEntry
  \/ ScanRaises
  \/ ScanDone
  \/ DupGroup
  \/ DupSummary
  \/ ToneGroup
  \/ ToneSummary

Spec == Init /\ [][Next]_vars

----------------------------------------------------------------------------
(* normalize_pinyin_full and normalize_pinyin_stripped on their own *)

\* the characters pinyin is written in
PinyinChars == {"a", "A", "aacute", "agrave", "cacute", "cgrave", "sp"}

PinyinStrings == SeqsUpTo(PinyinChars, MaxLen)

\* run_sanitizer is not running
SanIdle ==
  /\ input = [kind |-> "missing"]
  /\ pc = "idle"
  /\ data = [type |-> "null"]
  /\ i = 0
  /\ chinese_groups = <<>>
  /\ word_map = <<>>
  /\ g = 0
  /\ duplicates_found = 0
  /\ w = 0
  /\ inconsistent_count = 0
  /\ out = <<>>

InitNorm ==
  /\ SanIdle
  /\ BulkIdle
  /\ raw_pair \in PinyinStrings \X PinyinStrings
  /\ full_keys = <<>>
  /\ stripped_keys = <<>>

NormalizeFull ==
  /\ full_keys = <<>>
  /\ full_keys' = <<normalize_pinyin_full(raw_pair[1]),
                    normalize_pinyin_full(raw_pair[2])>>
  /\ UNCHANGED <<sanvars, bulkvars, raw_pair, stripped_keys>>

NormalizeStripped ==
  /\ stripped_keys = <<>>
  /\ stripped_keys' = <<normalize_pinyin_stripped(raw_pair[1]),
                        normalize_pinyin_stripped(raw_pair[2])>>
  /\ UNCHANGED <<sanvars, bulkvars, raw_pair, full_keys>>

NextNorm ==
  \/ NormalizeFull
  \/ NormalizeStripped

SpecNorm == InitNorm /\ [][NextNorm]_vars

----------------------------------------------------------------------------
(* generator/bulk_generate.py *)

\* "if consecutive_failures >= 5"
FailLimit == 5

\* word in chinese_text
IsIn(word, chinese_text) ==
  \E k \in 0..(Len(chinese_text) - Len(word)) :
    SubSeq(chinese_text, k + 1, k + Len(word)) = word

\* item.get('chunks', [])
ItemChunks(item) == IF LacksChunks(item) THEN <<>> ELSE Chunks(item)

\* the counting loop body: every target word found in the sentence gains one
CountSentence(cnt, item, target_words) ==
  LET chinese_text == JoinChinese(ItemChunks(item))
  IN [x \in BulkWords |->
        IF x \in target_words /\ IsIn(x, chinese_text) THEN cnt[x] + 1
        ELSE cnt[x]]

RECURSIVE CountSentences(_, _, _)
\* the counting loop over a list of sentences, starting from cnt
CountSentences(cnt, items, target_words) ==
  IF items = <<>> THEN cnt
  ELSE CountSentence(CountSentences(cnt, SubSeq(items, 1, Len(items) - 1),
                                    target_words),
                     items[Len(items)], target_words)

\* set(words)
TargetWords(wlist) == {wlist[n] : n \in 1..Len(wlist)}

\* os.path.exists(output_file) and os.path.getsize(output_file) > 0
HasContent(file) == file.kind \in {"list", "falsy", "other"}

\* get_sentence_counts: nothing is counted for a missing or empty file, for
\* a document that is no list, and for a file yaml.safe_load cannot read
get_sentence_counts(file, wlist) ==
  LET zero == [x \in BulkWords |-> 0]
  IN IF file.kind = "list"
       THEN CountSentences(zero, file.items, TargetWords(wlist))
     ELSE zero

\* append_to_output raises: the stored document cannot be read, or is no
\* list and has no extend
AppendRaises(file) == file.kind = "other"

\* append_to_output writing the new sentences alone
AppendOverwrite(file, new_sentences) ==
  [kind |-> "list", items |-> new_sentences]

\* append_to_output on a file it does not raise on
append_to_output(file, new_sentences) ==
  LET all_data == IF HasContent(file) /\ file.kind # "falsy" THEN file.items
                  ELSE <<>>
  IN [kind |-> "list", items |-> all_data \o new_sentences]

\* the sentences found in an output file: both words, the second word alone,
\* and a record without chunks
FileSentences ==
  { MkEntry("e1", <<MkChunk(NI, MA), MkChunk(HAO, MA)>>),
    MkEntry("e2", <<MkChunk(HAO, MA)>>),
    [type |-> "map", val |-> [english |-> "e3"]] }

\* the output file before the run: missing, of size 0, a list of sentences,
\* a document yaml.safe_load gives a false value for (null, {}, 0), or
\* something append_to_output cannot extend
OutputFiles ==
  {[kind |-> k, items |-> <<>>] : k \in {"absent", "empty", "falsy", "other"}}
    \cup {[kind |-> "list", items |-> q] : q \in SeqsUpTo(FileSentences, MaxFile)}

\* the lists generate_for_word returns (validate_data has passed)
GeneratedLists ==
  { <<>>,
    <<MkEntry("e1", <<MkChunk(NI, MA), MkChunk(HAO, MA)>>)>>,
    <<MkEntry("e2", <<MkChunk(HAO, MA)>>),
      MkEntry("e4", <<MkChunk(NI, MA), MkChunk(PERIOD, <<"period">>)>>)>> }

InitBulk ==
  /\ SanIdle
  /\ NormIdle
  /\ word_list \in SeqsUpTo(BulkWords, MaxWords)
  /\ limit \in 0..MaxLimit
  /\ retries \in 0..MaxRetries
  /\ output_file \in OutputFiles
  /\ counts = [x \in BulkWords |-> 0]
  /\ consecutive_failures = 0
  /\ total_new_count = 0
  /\ word_i = 0
  /\ attempt = 0
  /\ success = FALSE
  /\ bpc = "main"
  /\ exc = "none"
  /\ file0 = output_file
  /\ calls = [n \in 1..Len(word_list) |-> 0]
  /\ appends = [n \in 1..Len(word_list) |-> 0]
  /\ generated = <<>>

\* main, lines 82-84: an empty word list ends the run
NoWords ==
  /\ bpc = "main"
  /\ word_list = <<>>
  /\ bpc' = "done"
  /\ UNCHANGED <<sanvars, normvars, exc, word_list, limit, retries, output_file,
                 counts, consecutive_failures, total_new_count, word_i,
                 attempt, success, file0, calls, appends, generated>>

\* main, lines 86-91: the counts are read from the output file
StartRun ==
  /\ bpc = "main"
  /\ word_list # <<>>
  /\ counts' = get_sentence_counts(output_file, word_list)
  /\ consecutive_failures' = 0
  /\ total_new_count' = 0
  /\ word_i' = 1
  /\ bpc' = "loop"
  /\ UNCHANGED <<sanvars, normvars, exc, word_list, limit, retries, output_file,
                 attempt, success, file0, calls, appends, generated>>

\* the head of the word loop, lines 93-96, passed with a word left
AtWord ==
  /\ bpc = "loop"
  /\ word_i <= Len(word_list)
  /\ consecutive_failures < FailLimit

\* every word taken to need sentences
NeedsSentencesAlways(current_count) == TRUE

\* line 100: "if current_count < args.limit"
NeedsSentences(current_count) == current_count < limit

\* lines 98-100, 132-133: the word has enough sentences
SkipWord ==
  /\ AtWord
  /\ ~NeedsSentences(counts[word_list[word_i]])
  /\ word_i' = word_i + 1
  /\ UNCHANGED <<sanvars, normvars, exc, word_list, limit, retries, output_file,
                 counts, consecutive_failures, total_new_count, attempt,
                 success, bpc, file0, calls, appends, generated>>

\* lines 98-104: the word needs sentences, the attempts begin
BeginWord ==
  /\ AtWord
  /\ NeedsSentences(counts[word_list[word_i]])
  /\ success' = FALSE
  /\ attempt' = 0
  /\ bpc' = "attempt"
  /\ UNCHANGED <<sanvars, normvars, exc, word_list, limit, retries, output_file,
                 counts, consecutive_failures, total_new_count, word_i,
                 file0, calls, appends, generated>>

\* the failure limit never ends the attempts of a word
BreakAttemptsNever(failures) == FALSE

\* lines 125-126: "if consecutive_failures >= 5: break"
BreakAttempts(failures) == failures >= FailLimit

\* lines 122-128: the except branch of an attempt, e bound to the exception
AttemptFailed(raised_in) ==
  /\ exc' = raised_in
  /\ consecutive_failures' = consecutive_failures + 1
  /\ IF BreakAttempts(consecutive_failures + 1) \/ attempt = retries
       THEN bpc' = "after" /\ attempt' = attempt
     ELSE bpc' = "attempt" /\ attempt' = attempt + 1
  /\ UNCHANGED <<sanvars, normvars, word_list, limit, retries, output_file,
                 counts, total_new_count, word_i, success, file0, appends,
                 generated>>

\* line 106 raises: no definitions, or an answer that is no valid JSON list
\* of sentences
GenerateRaises ==
  /\ bpc = "attempt"
  /\ calls' = [calls EXCEPT ![word_i] = @ + 1]
  /\ AttemptFailed("generate_for_word")

\* line 106 returns and line 107 raises
AppendFails ==
  /\ bpc = "attempt"
  /\ AppendRaises(output_file)
  /\ calls' = [calls EXCEPT ![word_i] = @ + 1]
  /\ AttemptFailed("append_to_output")

\* the counts updated for the examined word only
CountNewForWord(cnt, sentences, target_words, word) ==
  CountSentences(cnt, sentences, {word})

\* lines 111-116: the counts of every target word updated for the new
\* sentences
CountNew(cnt, sentences, target_words, word) ==
  CountSentences(cnt, sentences, target_words)

\* lines 106-121: the attempt succeeds
AttemptSucceeds ==
  /\ bpc = "attempt"
  /\ ~AppendRaises(output_file)
  /\ \E sentences \in GeneratedLists :
       /\ output_file' = append_to_output(output_file, sentences)
       /\ counts' = CountNew(counts, sentences, TargetWords(word_list),
                             word_list[word_i])
       /\ total_new_count' = total_new_count + Len(sentences)
       /\ generated' = generated \o sentences
  /\ calls' = [calls EXCEPT ![word_i] = @ + 1]
  /\ appends' = [appends EXCEPT ![word_i] = @ + 1]
  /\ consecutive_failures' = 0
  /\ success' = TRUE
  /\ bpc' = "after"
  /\ UNCHANGED <<sanvars, normvars, exc, word_list, limit, retries, word_i,
                 attempt, file0>>

\* lines 130-131: the run stops after the failure limit
StopRun ==
  /\ bpc = "after"
  /\ ~success /\ consecutive_failures >= FailLimit
  /\ bpc' = "done"
  /\ UNCHANGED <<sanvars, normvars, exc, word_list, limit, retries, output_file,
                 counts, consecutive_failures, total_new_count, word_i,
                 attempt, success, file0, calls, appends, generated>>

\* the end of the loop body: on to the next word
NextWord ==
  /\ bpc = "after"
  /\ ~(~success /\ consecutive_failures >= FailLimit)
  /\ word_i' = word_i + 1
  /\ bpc' = "loop"
  /\ UNCHANGED <<sanvars, normvars, exc, word_list, limit, retries, output_file,
                 counts, consecutive_failures, total_new_count, attempt,
                 success, file0, calls, appends, generated>>

\* lines 135-138: the word list is exhausted
Finish ==
  /\ bpc = "loop"
  /\ word_i > Len(word_list)
  /\ bpc' = "done"
  /\ UNCHANGED <<sanvars, normvars, exc, word_list, limit, retries, output_file,
                 counts, consecutive_failures, total_new_count, word_i,
                 attempt, success, file0, calls, appends, generated>>

NextBulk ==
  \/ NoWords
  \/ StartRun
  \/ SkipWord
  \/ BeginWord
  \/ GenerateRaises
  \/ AppendFails
  \/ AttemptSucceeds
  \/ StopRun
  \/ NextWord
  \/ Finish

SpecBulk == InitBulk /\ [][NextBulk]_vars

----------------------------------------------------------------------------
(* Vocabulary of the properties *)

\* the run loaded a non-empty list and printed the whole report
Finished == pc = "done" /\ input.kind = "doc" /\ Truthy(input.doc)

Range(q) == {q[n] : n \in 1..Len(q)}

\* the records (by index) of the loaded list that are mappings with a chunk list
ChunkRecords ==
  IF data.type # "seq" THEN {}
  ELSE {idx \in 0..(Len(data.items) - 1) :
          /\ ~EntryRaises(Item(data.items, idx))
          /\ "chunks" \in DOMAIN Item(data.items, idx).val}

\* the concatenated Chinese text of record idx
TextOf(idx) == JoinChinese(Chunks(Item(data.items, idx)))

\* the full-letters key of the space-joined pinyin of record idx
KeyOf(idx) == normalize_pinyin_full(JoinPinyin(Chunks(Item(data.items, idx))))

DupLines == {n \in 1..Len(out) : out[n].kind = "dup"}

\* records a and b are printed in one duplicate-sentence group
ReportedTogether(a, b) ==
  \E n \in DupLines : a \in Range(out[n].indices) /\ b \in Range(out[n].indices)

\* two records with the same Chinese text read differently
HomographPair(a, b) == a # b /\ TextOf(a) = TextOf(b) /\ KeyOf(a) # KeyOf(b)

----------------------------------------------------------------------------
(* Duplicate detection *)

\* C1: in a finished report two distinct records with chunks are printed in
\* one duplicate group exactly when their concatenated Chinese texts are
\* equal and their space-joined pinyin has the same full-letters key
C1_PairReportedIff ==
  Finished =>
    \A a, b \in ChunkRecords :
      a # b => (ReportedTogether(a, b) <=> (TextOf(a) = TextOf(b) /\ KeyOf(a) = KeyOf(b)))

\* C2: no printed duplicate group holds two records with the same Chinese
\* text whose pinyin normalizes to different full-letters keys
C2_HomographExclusion ==
  \A n \in DupLines :
    \A a, b \in Range(out[n].indices) : ~HomographPair(a, b)

\* a finished report that printed a duplicate group for a corpus that also
\* holds a homograph pair
C2_Witness ==
  /\ Finished
  /\ DupLines # {}
  /\ \E a, b \in ChunkRecords : HomographPair(a, b)

----------------------------------------------------------------------------
(* Tone inconsistencies *)

\* the chunks of the records with chunks
AllChunks == UNION {Range(Chunks(Item(data.items, idx))) : idx \in ChunkRecords}

\* the Chinese texts of those chunks (the empty string where the field is missing)
ChunkTexts == {ChunkChinese(c) : c \in AllChunks}

\* the full-letters normalizations of the pinyin of the chunks whose text is ch
ReadingsOf(ch) ==
  {normalize_pinyin_full(ChunkPinyin(c)) : c \in {d \in AllChunks : ChunkChinese(d) = ch}}

\* ch has two distinct full-letters readings with one stripped normalization
ToneConflict(ch) ==
  \E f1, f2 \in ReadingsOf(ch) :
    f1 # f2 /\ normalize_pinyin_stripped(f1) = normalize_pinyin_stripped(f2)

\* ch is printed in the inconsistent-tones section
PrintedTone(ch) == \E n \in 1..Len(out) : out[n].kind = "chinese" /\ out[n].ch = ch

\* a text with no character of a letter category
NoLetter(ch) == \A k \in 1..Len(ch) : category(ch[k]) \notin {"Ll", "Lu", "Lo"}

\* C3 as stated: in a finished report every chunk text is printed in the
\* inconsistent-tones section exactly when it has two distinct full-letters
\* readings that share a stripped normalization
C3_FlaggedIffAnyText ==
  Finished => \A ch \in ChunkTexts : PrintedTone(ch) <=> ToneConflict(ch)

\* C3 amended: the same equivalence for every chunk text that has a
\* character of a letter category
C3_FlaggedIff ==
  Finished =>
    \A ch \in ChunkTexts : ~NoLetter(ch) => (PrintedTone(ch) <=> ToneConflict(ch))

\* a finished report that prints a text with letters for its tone conflict
C3_Witness ==
  /\ Finished
  /\ \E ch \in ChunkTexts : ~NoLetter(ch) /\ ToneConflict(ch) /\ PrintedTone(ch)

\* C4: a chunk text with no letter-category character is never a key of
\* word_map and is never printed in the inconsistent-tones section
C4_PunctuationExcluded ==
  /\ \A n \in 1..Len(word_map) : ~NoLetter(word_map[n].k)
  /\ \A n \in 1..Len(out) : out[n].kind = "chinese" => ~NoLetter(out[n].ch)

\* a finished report for a corpus in which a text without letters has
\* tone-conflicting pinyin
C4_Witness ==
  /\ Finished
  /\ \E ch \in ChunkTexts : NoLetter(ch) /\ ToneConflict(ch) /\ ~PrintedTone(ch)

----------------------------------------------------------------------------
(* The reporting cap and the summary line *)

\* the records with chunks whose concatenated Chinese text is T
RecordsOf(T) == {a \in ChunkRecords : TextOf(a) = T}

\* the texts the sanitizer counts as duplicate groups: two or more records,
\* all read with one full-letters key
DuplicateTexts ==
  {T \in {TextOf(a) : a \in ChunkRecords} :
     /\ Cardinality(RecordsOf(T)) >= 2
     /\ \A a, b \in RecordsOf(T) : KeyOf(a) = KeyOf(b)}

GroupCount == Cardinality(DuplicateTexts)

\* the lowest index of a record with text T
FirstIndex(T) == CHOOSE a \in RecordsOf(T) : \A b \in RecordsOf(T) : a <= b

\* C5: with N duplicate groups a finished report prints min(N, 10) groups in
\* full, each with all its records, these being the first ones in order of
\* first occurrence, and for N > 10 it counts the rest as N - 10
C5_ReportingCap ==
  Finished =>
    /\ Cardinality(DupLines) = (IF GroupCount < 10 THEN GroupCount ELSE 10)
    /\ \A n \in DupLines :
         /\ out[n].chinese \in DuplicateTexts
         /\ Range(out[n].indices) = RecordsOf(out[n].chinese)
         /\ Cardinality({T \in DuplicateTexts : FirstIndex(T) < FirstIndex(out[n].chinese)})
              = Cardinality({m \in DupLines : m < n})
    /\ GroupCount > 10 =>
         \E n \in 1..Len(out) : out[n].kind = "more" /\ out[n].n = GroupCount - 10

\* a finished report for more than ten groups, ten of them printed
C5_Witness == Finished /\ GroupCount > 10 /\ Cardinality(DupLines) = 10

\* the report has a summary line that states the number k
StatesCount(k) ==
  \E n \in 1..Len(out) : out[n].kind \in {"found", "more"} /\ out[n].n = k

\* C6 as stated: zero groups give the no-duplicates message and every
\* nonzero number N of groups is stated in the report
C6_TotalAlwaysStated ==
  Finished =>
    /\ GroupCount = 0 => \E n \in 1..Len(out) : out[n].kind = "nodups"
    /\ GroupCount >= 1 => StatesCount(GroupCount)

----------------------------------------------------------------------------
(* Load failures and malformed documents *)

\* a document whose truth value is false: null, zero or the empty list
EmptyDocument(doc) ==
  \/ doc.type = "null"
  \/ doc.type = "int" /\ doc.val["n"] = 0
  \/ doc.type = "seq" /\ doc.items = <<>>

LoadFails ==
  \/ input.kind \in {"missing", "badyaml"}
  \/ input.kind = "doc" /\ EmptyDocument(input.doc)

\* what a failed load prints
FailureMessage ==
  CASE input.kind = "missing" -> <<[kind |-> "notfound"]>>
    [] input.kind = "badyaml" -> <<[kind |-> "analyzing"], [kind |-> "parseerror"]>>
    [] OTHER -> <<[kind |-> "analyzing"], [kind |-> "empty"]>>

\* C7: on a missing file, a parse error or an empty document the run prints
\* the matching message and returns; it builds no grouping structure and
\* prints no line of either report section
C7_LoadFailureHalts ==
  LoadFails =>
    /\ pc \in {"start", "done"}
    /\ chinese_groups = <<>>
    /\ word_map = <<>>
    /\ out = (IF pc = "done" THEN FailureMessage ELSE <<>>)

\* a run that returned on an empty document
C7_Witness ==
  /\ pc = "done"
  /\ input.kind = "doc"
  /\ EmptyDocument(input.doc)
  /\ out = <<[kind |-> "analyzing"], [kind |-> "empty"]>>

\* C8: once a non-empty document is loaded no analysis step raises
C8_NoStepRaises == pc # "raised"


----------------------------------------------------------------------------
(* Records without chunks and chunks without fields *)

\* the list has been loaded into data
Loaded == input.kind = "doc" /\ data.type = "seq" /\ data.items # <<>>

IsChunkless(entry) == entry.type = "map" /\ "chunks" \notin DOMAIN entry.val

KeepsChunks(entry) == ~IsChunkless(entry)

\* the records (by index) that are mappings without a chunks field
ChunklessRecords ==
  {idx \in 0..(Len(data.items) - 1) : IsChunkless(Item(data.items, idx))}

\* the loaded list with the records without chunks left out
WithoutChunkless(items) == SelectSeq(items, KeepsChunks)

\* a report without the record indices of its duplicate groups
Printed(lines) ==
  [n \in 1..Len(lines) |->
     IF lines[n].kind = "dup"
     THEN [kind |-> "dup", chinese |-> lines[n].chinese, pinyin |-> lines[n].pinyin,
           english |-> lines[n].english]
     ELSE lines[n]]

\* the record indices held by the two grouping structures
GroupedIndices == UNION {Range(chinese_groups[n].v) : n \in 1..Len(chinese_groups)}

WordIndices ==
  UNION {UNION {Range(word_map[n].v[m].v) : m \in 1..Len(word_map[n].v)} :
           n \in 1..Len(word_map)}

\* C9: a record without a chunks field enters neither grouping structure and
\* no duplicate group, does not make the run raise, and the report is the
\* one printed for the list without such records (record indices apart)
C9_ChunklessSkipped ==
  Loaded =>
    /\ GroupedIndices \cap ChunklessRecords = {}
    /\ WordIndices \cap ChunklessRecords = {}
    /\ \A n \in DupLines : Range(out[n].indices) \cap ChunklessRecords = {}
    /\ pc \in {"done", "raised"} =>
         LET rest == Analyze(WithoutChunkless(data.items))
         IN /\ (pc = "raised") = rest.raised
            /\ pc = "done" => Printed(Tail(out)) = Printed(rest.lines)

\* a finished report with a duplicate group that holds a record placed after
\* a record without chunks
C9_Witness ==
  /\ Finished
  /\ \E c \in ChunklessRecords, n \in DupLines :
       \E a \in Range(out[n].indices) : a > c

RECURSIVE PresentChinese(_)
\* the chinese fields that are present, concatenated in order
PresentChinese(chunks) ==
  IF chunks = <<>> THEN <<>>
  ELSE (IF "chinese" \in DOMAIN Head(chunks).val THEN Head(chunks).val["chinese"] ELSE <<>>)
       \o PresentChinese(Tail(chunks))

\* a chunk with the empty string written out for each missing field
FillChunk(chunk) ==
  [type |-> "map",
   val |-> [chinese |-> IF "chinese" \in DOMAIN chunk.val THEN chunk.val["chinese"] ELSE <<>>,
            pinyin |-> IF "pinyin" \in DOMAIN chunk.val THEN chunk.val["pinyin"] ELSE <<>>]]

FillEntry(entry) ==
  IF IsChunkless(entry) THEN entry
  ELSE [entry EXCEPT !.val["chunks"].items =
          [k \in 1..Len(Chunks(entry)) |-> FillChunk(Chunks(entry)[k])]]

\* the loaded list with every missing chinese or pinyin field written as ''
WithDefaults(items) == [n \in 1..Len(items) |-> FillEntry(items[n])]

\* a chunk that lacks its chinese field
LacksChinese(chunk) == "chinese" \notin DOMAIN chunk.val

\* C10: a missing chinese or pinyin field counts as the empty string: every
\* scanned record with chunks is grouped under the concatenation of the
\* chinese fields it has, a chunk without chinese adds no word, and the run
\* ends with the grouping structures and the report of the list in which
\* the missing fields are written as empty strings
C10_MissingFieldsDefault ==
  Loaded =>
    /\ \A n \in 1..Len(chinese_groups) :
         \A idx \in Range(chinese_groups[n].v) :
           chinese_groups[n].k = PresentChinese(Chunks(Item(data.items, idx)))
    /\ \A idx \in ChunkRecords : idx < i => idx \in GroupedIndices
    /\ \A n \in 1..Len(word_map) : word_map[n].k # <<>>
    /\ pc = "done" =>
         LET filled == Analyze(WithDefaults(data.items))
         IN /\ chinese_groups = filled.chinese_groups
            /\ word_map = filled.word_map
            /\ Tail(out) = filled.lines

\* a finished report with a duplicate group that holds a record one of whose
\* chunks has no chinese field
C10_Witness ==
  /\ Finished
  /\ \E n \in DupLines :
       \E idx \in Range(out[n].indices) :
         \E c \in Range(Chunks(Item(data.items, idx))) : LacksChinese(c)


----------------------------------------------------------------------------
(* The lines of an inconsistent-tones entry *)

\* the chunk occurrences <<record index, chunk position>> whose text is ch
Occurrences(ch) ==
  {o \in UNION {{<<idx, k>> : k \in 1..Len(Chunks(Item(data.items, idx)))} :
                  idx \in ChunkRecords} :
     ChunkChinese(Chunks(Item(data.items, o[1]))[o[2]]) = ch}

\* the raw pinyin of an occurrence
RawOf(o) == ChunkPinyin(Chunks(Item(data.items, o[1]))[o[2]])

\* the occurrences of ch whose raw pinyin is raw
RawOccurrences(ch, raw) == {o \in Occurrences(ch) : RawOf(o) = raw}

\* the occurrences of ch whose pinyin has the full-letters key f
KeyOccurrences(ch, f) == {o \in Occurrences(ch) : normalize_pinyin_full(RawOf(o)) = f}

\* the full-letters readings of ch that share a stripped key with another one
ConflictReadings(ch) ==
  {f \in ReadingsOf(ch) :
     \E h \in ReadingsOf(ch) :
       h # f /\ normalize_pinyin_stripped(h) = normalize_pinyin_stripped(f)}

\* the first occurrence of a non-empty set, in corpus order
FirstOccurrence(O) ==
  CHOOSE o \in O : \A q \in O : o[1] < q[1] \/ (o[1] = q[1] /\ o[2] <= q[2])

\* the "Chinese:" line that the variant line n is printed under
HeadOf(n) ==
  CHOOSE m \in 1..n : /\ out[m].kind = "chinese"
                      /\ \A q \in (m + 1)..n : out[q].kind # "chinese"

\* the variant lines printed under a "Chinese: ch" line
VariantLinesOf(ch) ==
  {n \in 1..Len(out) : out[n].kind = "variant" /\ out[HeadOf(n)].ch = ch}

\* the english field of record idx as the tone section prints it
ExampleOf(idx) ==
  IF "english" \in DOMAIN Item(data.items, idx).val
  THEN Item(data.items, idx).val["english"] ELSE "None"

\* C11 as stated: under every printed text each distinct raw pinyin variant
\* of the conflicting readings has a line of its own, whose count is the
\* number of occurrences of that raw variant
C11_EachRawVariantListed ==
  Finished =>
    \A ch \in ChunkTexts :
      PrintedTone(ch) =>
        \A o \in Occurrences(ch) :
          normalize_pinyin_full(RawOf(o)) \in ConflictReadings(ch) =>
            \E n \in VariantLinesOf(ch) :
              /\ out[n].raw = RawOf(o)
              /\ out[n].count = Cardinality(RawOccurrences(ch, RawOf(o)))

\* C11 amended: under every printed text each conflicting full-letters
\* reading has exactly one line; the line shows the raw pinyin of the first
\* occurrence of the reading, the number of chunk occurrences of the reading
\* and the english of the record of that first occurrence; every line is
\* such a line and the lines of one entry are sorted by reading
C11_OneLinePerReading ==
  Finished =>
    \A ch \in ChunkTexts :
      PrintedTone(ch) =>
        /\ \A f \in ConflictReadings(ch) :
             /\ Cardinality({n \in VariantLinesOf(ch) :
                               normalize_pinyin_full(out[n].raw) = f}) = 1
             /\ \E n \in VariantLinesOf(ch) :
                  /\ out[n].raw = RawOf(FirstOccurrence(KeyOccurrences(ch, f)))
                  /\ out[n].count = Cardinality(KeyOccurrences(ch, f))
                  /\ out[n].english = ExampleOf(FirstOccurrence(KeyOccurrences(ch, f))[1])
        /\ \A n \in VariantLinesOf(ch) :
             /\ normalize_pinyin_full(out[n].raw) \in ConflictReadings(ch)
             /\ (n > 1 /\ out[n - 1].kind = "variant") =>
                  StrLess(normalize_pinyin_full(out[n - 1].raw),
                          normalize_pinyin_full(out[n].raw))

\* a finished report with a line that counts occurrences of two raw variants
C11_Witness ==
  /\ Finished
  /\ \E ch \in ChunkTexts :
       \E n \in VariantLinesOf(ch) :
         out[n].count > Cardinality(RawOccurrences(ch, out[n].raw))


----------------------------------------------------------------------------
(* Output ordering *)

ChineseLines == {n \in 1..Len(out) : out[n].kind = "chinese"}

\* q is strictly ascending
Ascending(q) == \A k \in 1..(Len(q) - 1) : q[k] < q[k + 1]

\* C12: duplicate groups are printed in the order of the lowest record index
\* of their Chinese text, a printed group shows all records of its text in
\* ascending index order, and the inconsistent-tones entries come in sorted
\* order of the chunk text
C12_OutputOrdering ==
  /\ \A m, n \in DupLines :
       m < n => FirstIndex(out[m].chinese) < FirstIndex(out[n].chinese)
  /\ \A n \in DupLines :
       /\ Ascending(out[n].indices)
       /\ Range(out[n].indices) = RecordsOf(out[n].chinese)
       /\ Len(out[n].english) = Len(out[n].indices)
       /\ \A k \in 1..Len(out[n].indices) :
            out[n].english[k] =
              (IF "english" \in DOMAIN Item(data.items, out[n].indices[k]).val
               THEN Item(data.items, out[n].indices[k]).val["english"] ELSE "???")
  /\ \A m, n \in ChineseLines :
       m < n => (out[m].ch = out[n].ch \/ StrLess(out[m].ch, out[n].ch))

\* a finished report with two duplicate groups printed against the sorted
\* order of their texts and two tone entries printed against the order in
\* which their texts were first met
C12_Witness ==
  /\ Finished
  /\ \E m, n \in DupLines : m < n /\ StrLess(out[n].chinese, out[m].chinese)
  /\ \E m, n \in ChineseLines : m < n /\ out[m].ch # out[n].ch
  /\ \E a, b \in 1..Len(word_map) :
       a < b /\ StrLess(word_map[b].k, word_map[a].k)


----------------------------------------------------------------------------
(* Determinism *)

\* C13: the report is a function of the input: whenever a run on a loaded
\* list ends, its lines are those the analysis function gives for the input
\* list, it raises exactly when that function does, and the loaded records
\* are at every step the records of the input
C13_Deterministic ==
  /\ (input.kind = "doc" /\ pc # "start") => data = input.doc
  /\ (input.kind = "doc" /\ input.doc.type = "seq" /\ pc \in {"done", "raised"}
        /\ input.doc.items # <<>>) =>
       LET run == Analyze(input.doc.items)
       IN /\ (pc = "raised") = run.raised
          /\ pc = "done" => out = <<[kind |-> "analyzing"]>> \o run.lines

\* a finished report whose two loops each went over more than one key
C13_Witness ==
  /\ Finished
  /\ Len(chinese_groups) > 1
  /\ Len(word_map) > 1
  /\ DupLines # {}
  /\ ChineseLines # {}

----------------------------------------------------------------------------
(* C14: what the two keys keep of a pinyin string *)

\* the base letter and the tone a precomposed or plain letter carries
BaseOf(c) == IF c \in {"a", "A", "aacute", "agrave"} THEN "a" ELSE c

ToneOfLetter(c) ==
  CASE c = "aacute" -> "acute"
    [] c = "agrave" -> "grave"
    [] OTHER -> "none"

ToneOfMark(c) == IF c = "cacute" THEN "acute" ELSE "grave"

IsMark(c) == c \in {"cacute", "cgrave"}

IsPinyinLetter(c) == c \in {"a", "A", "aacute", "agrave"}

\* a combining mark is written directly after the unmarked letter it tones
WellFormed(s) ==
  \A k \in 1..Len(s) :
    IsMark(s[k]) => k > 1 /\ s[k - 1] \in {"a", "A"}

RECURSIVE Syllables(_)
\* the letters of s in order, each with its base and its tone, whichever way
\* the tone is written
Syllables(s) ==
  IF s = <<>> THEN <<>>
  ELSE LET prev == Syllables(SubSeq(s, 1, Len(s) - 1))
           c == s[Len(s)]
       IN IF IsPinyinLetter(c)
            THEN Append(prev, [base |-> BaseOf(c), tone |-> ToneOfLetter(c)])
          ELSE IF IsMark(c) /\ prev # <<>>
            THEN [prev EXCEPT ![Len(prev)].tone = ToneOfMark(c)]
          ELSE prev

Bases(s) == [k \in 1..Len(Syllables(s)) |-> Syllables(s)[k].base]

NormDone == full_keys # <<>> /\ stripped_keys # <<>>

\* C14: two pinyin strings with the same base letters and the same tones get
\* equal full keys, and two with the same base letters and different tones
\* get different full keys but equal stripped keys, whether a tone is written
\* as a precomposed letter or as a separate combining character.
C14_ToneMarksRetained ==
  (NormDone /\ WellFormed(raw_pair[1]) /\ WellFormed(raw_pair[2])) =>
    /\ Syllables(raw_pair[1]) = Syllables(raw_pair[2])
         => full_keys[1] = full_keys[2]
    /\ (/\ Bases(raw_pair[1]) = Bases(raw_pair[2])
        /\ Syllables(raw_pair[1]) # Syllables(raw_pair[2]))
         => /\ full_keys[1] # full_keys[2]
            /\ stripped_keys[1] = stripped_keys[2]

----------------------------------------------------------------------------
(* bulk_generate.main: vocabulary of the claims *)

\* a step that is an attempt: generate_for_word has been called once more
IsAttempt == calls' # calls

\* a step that is a successful attempt: sentences have been appended
IsSuccess == appends' # appends

\* C15: the consecutive-failure counter goes up by one in every failed
\* attempt, whichever word it is for, goes back to 0 in every successful
\* attempt and changes in no other step; it never exceeds 5; and from the
\* moment it is 5 no generate_for_word call is made, no further word is taken
\* up and the output file is not written.
C15_FailureLimit ==
  [][/\ consecutive_failures' <= FailLimit
     /\ (IsAttempt /\ ~IsSuccess)
          => consecutive_failures' = consecutive_failures + 1
     /\ IsSuccess => consecutive_failures' = 0
     /\ ~IsAttempt => consecutive_failures' = consecutive_failures
     /\ consecutive_failures >= FailLimit
          => /\ calls' = calls
             /\ appends' = appends
             /\ word_i' = word_i
             /\ output_file' = output_file]_vars

\* the run has stopped at the fifth failure in a row, the failures spread
\* over two words and attempts of the last word left unused
C15_Witness ==
  /\ bpc = "done"
  /\ consecutive_failures = FailLimit
  /\ \E m, n \in 1..Len(calls) : m < n /\ calls[m] > 0 /\ calls[n] > 0
  /\ attempt < retries

RECURSIVE SumAt(_, _)
\* the sum of the entries of q at the positions ps
SumAt(q, ps) ==
  IF ps = {} THEN 0
  ELSE LET n == CHOOSE m \in ps : TRUE
       IN q[n] + SumAt(q, ps \ {n})

\* the entries of the word list that hold the word x
EntriesOf(x) == {n \in 1..Len(word_list) : word_list[n] = x}

\* C16 as stated, a word being what the entries of the list hold: a call of
\* generate_for_word is made only for a word whose count is below the limit,
\* is at most the (retries+1)-th call for that word, and is made only while
\* nothing has been appended for that word.
C16_OncePerWord ==
  [][IsAttempt =>
       LET x == word_list[word_i]
       IN /\ counts[x] < limit
          /\ SumAt(calls', EntriesOf(x)) <= retries + 1
          /\ SumAt(appends, EntriesOf(x)) = 0]_vars

\* C16: for every entry of the word list: generate_for_word is called for it
\* only while it is the entry being examined and only if its word's count
\* is below the limit; it is called at most retries+1 times; no call for the
\* entry follows its successful attempt; and sentences are appended for it
\* at most once, in an attempt.
C16_OncePerEntry ==
  [][/\ IsAttempt =>
          /\ counts[word_list[word_i]] < limit
          /\ calls' = [calls EXCEPT ![word_i] = @ + 1]
          /\ calls'[word_i] <= retries + 1
          /\ appends[word_i] = 0
     /\ IsSuccess =>
          /\ IsAttempt
          /\ appends' = [appends EXCEPT ![word_i] = 1]]_vars

\* the run is over; a word listed twice got sentences appended for both of
\* its entries, for the second in its last allowed attempt after a failure
C16_Witness ==
  /\ bpc = "done"
  /\ \E m, n \in 1..Len(word_list) :
       /\ m < n
       /\ word_list[m] = word_list[n]
       /\ appends[m] = 1
       /\ appends[n] = 1
       /\ calls[n] = retries + 1
       /\ calls[n] > 1

\* the word x is a substring of the text t
Contains(t, x) ==
  \E k \in 1..(Len(t) + 1) :
    /\ k + Len(x) - 1 <= Len(t)
    /\ \A j \in 1..Len(x) : t[k + j - 1] = x[j]

\* the concatenated chunk Chinese text of a stored sentence
StoredText(item) == JoinChinese(ItemChunks(item))

\* the number of sentences stored in the file whose text contains x
StoredWith(file, x) ==
  Cardinality({k \in 1..Len(file.items) : Contains(StoredText(file.items[k]), x)})

\* a word is about to be examined
AboutToExamine == bpc = "loop" /\ word_i <= Len(word_list)

\* the output file was missing, empty or a list of sentences at the start
UsableFile == file0.kind \in {"absent", "empty", "list"}

\* C17: whenever a word is about to be examined in a run that started with a
\* missing, empty or list output file, counts[w] of every word w of the word
\* list is the number of sentences stored in the output file whose
\* concatenated chunk Chinese text contains w.
C17_CountsAgreeWithFile ==
  (AboutToExamine /\ UsableFile) =>
    \A n \in 1..Len(word_list) :
      counts[word_list[n]] = StoredWith(output_file, word_list[n])

\* the second word is about to be examined after a failed and a successful
\* attempt for the first; the file held a sentence before, and a word has one
\* sentence from before the run and one from the run
C17_Witness ==
  /\ AboutToExamine
  /\ word_i = 2
  /\ file0.kind = "list" /\ file0.items # <<>>
  /\ calls[1] = 2 /\ appends[1] = 1
  /\ generated # <<>>
  /\ \E n \in 1..Len(word_list) :
       /\ StoredWith(file0, word_list[n]) = 1
       /\ counts[word_list[n]] = 2

\* the sentences a step has added to the record of appended sentences
NewlyGenerated == SubSeq(generated', Len(generated) + 1, Len(generated'))

\* C18: a successful attempt leaves in the file the sentences it held, in
\* their order, followed by the new sentences in their order; every other
\* step, a failed attempt among them, leaves the file as it is; so the file
\* always holds its initial sentences followed by the sentence lists of the
\* successful attempts in the order they happened.
C18_AppendOnly ==
  [][/\ IsSuccess =>
          output_file'.items = output_file.items \o NewlyGenerated
     /\ ~IsSuccess => output_file' = output_file /\ generated' = generated
     /\ output_file'.items = file0.items \o generated']_vars

\* two successful generations of sentences, a failed attempt between them,
\* on a file that held a sentence
C18_Witness ==
  /\ file0.kind = "list" /\ file0.items # <<>>
  /\ Len(word_list) >= 2
  /\ appends[1] = 1 /\ appends[2] = 1 /\ calls[2] = 2
  /\ Len(output_file.items) >= Len(file0.items) + 2
  /\ output_file.items[Len(file0.items) + 1] # output_file.items[Len(output_file.items)]

====
